---- MODULE Spec2Model ----
(***************************************************************************)
(* Model of the FIT encoder of create_wahoo_workout.py: the nibble-wise    *)
(* CRC (calculate_crc) and the FitWriter class (define_message,            *)
(* write_data_message, finalize).                                          *)
(***************************************************************************)
EXTENDS Integers, Sequences, FiniteSets, TLC

VARIABLES data, local_message_types, next_local_id, calls, ret, prev, assigned,
          schemas, successes, checksum

vars == <<data, local_message_types, next_local_id, calls, ret, prev, assigned,
          schemas, successes, checksum>>

(***************************************************************************)
(* Bounds of the model.                                                    *)
(***************************************************************************)
\* define_message / write_data_message calls in one session of Spec
MaxCalls == 3
\* define_message calls in one session of SpecCap
MaxCapDefines == 17
\* write_data_message calls in one session of SpecCap
MaxCapWrites == 1

(***************************************************************************)
(* Program constants.                                                      *)
(***************************************************************************)
FIT_HEADER_SIZE == 14
FIT_PROTOCOL_VERSION == 32
FIT_PROFILE_VERSION == 2140
FIT_ENUM == 0
FIT_UINT16 == 132

CRC_TABLE_Typo ==
  << 0, 835600, 55297, 5120, 61441, 15360, 10240, 58369,
     40961, 27648, 30720, 46081, 20480, 39937, 34817, 17408 >>
CRC_TABLE ==
  << 0, 52225, 55297, 5120, 61441, 15360, 10240, 58369,
     40961, 27648, 30720, 46081, 20480, 39937, 34817, 17408 >>

\* b'.FIT'
DotFIT == << 46, 70, 73, 84 >>

(***************************************************************************)
(* Python integer operators on non-negative integers.                      *)
(***************************************************************************)
\* a ^ b
BitXor[a \in Nat, b \in Nat] ==
  IF a = 0 THEN b
  ELSE IF b = 0 THEN a
  ELSE (((a % 2) + (b % 2)) % 2) + 2 * BitXor[a \div 2, b \div 2]

\* a | b
BitOr[a \in Nat, b \in Nat] ==
  IF a = 0 THEN b
  ELSE IF b = 0 THEN a
  ELSE (IF a % 2 = 1 \/ b % 2 = 1 THEN 1 ELSE 0) + 2 * BitOr[a \div 2, b \div 2]

\* bit k of x (0 or 1)
RECURSIVE Pow2(_)
Pow2(k) == IF k = 0 THEN 1 ELSE 2 * Pow2(k - 1)

Bit(x, k) == (x \div Pow2(k)) % 2

(***************************************************************************)
(* struct.pack, little-endian ('<'): B = u8, H = u16, I = u32.  A value    *)
(* outside the range of its format raises struct.error.                    *)
(***************************************************************************)
FitsB(x) == x \in 0..255
FitsH(x) == x \in 0..65535
FitsI(x) == x >= 0 /\ (x \div 65536) < 65536

PackB(x) == << x >>
PackHBigEndian(x) == << (x \div 256) % 256, x % 256 >>
PackH(x) == << x % 256, (x \div 256) % 256 >>
PackI(x) == << x % 256, (x \div 256) % 256, (x \div 65536) % 256, (x \div 16777216) % 256 >>

\* the inverse readings, used to state properties of the emitted bytes
ReadH(s, i) == s[i] + 256 * s[i + 1]
ReadI(s, i) == s[i] + 256 * s[i + 1] + 65536 * s[i + 2] + 16777216 * s[i + 3]

(***************************************************************************)
(* calculate_crc(data, crc=0)                                              *)
(***************************************************************************)
\* one nibble step: tmp = CRC_TABLE[crc & 0xF]; crc = (crc >> 4) & 0x0FFF;
\* crc = crc ^ tmp ^ CRC_TABLE[nibble]
CrcNibble[crc \in Nat, nibble \in 0..15] ==
  LET tmp == CRC_TABLE[(crc % 16) + 1]
      shifted == (crc \div 16) % 4096
  IN  BitXor[BitXor[shifted, tmp], CRC_TABLE[nibble + 1]]

\* low four bits of the byte first, then the upper four bits
CrcByte[crc \in Nat, byte \in 0..255] ==
  CrcNibble[CrcNibble[crc, byte % 16], (byte \div 16) % 16]

\* for byte in data: the bytes lo..hi in order, the range split in two so
\* that the evaluation stays shallow
CrcLoop[bytes \in Seq(0..255), crc \in Nat] ==
  LET range[lo \in 1..(Len(bytes) + 1), hi \in 0..Len(bytes), c \in Nat] ==
        IF lo > hi THEN c
        ELSE IF lo = hi THEN CrcByte[c, bytes[lo]]
        ELSE range[((lo + hi) \div 2) + 1, hi, range[lo, (lo + hi) \div 2, c]]
  IN  range[1, Len(bytes), crc]

calculate_crc_seedless(bytes, crc) == CrcLoop[bytes, 0]
calculate_crc(bytes, crc) == CrcLoop[bytes, crc]

(***************************************************************************)
(* Inputs of the calls.                                                    *)
(***************************************************************************)
\* global message numbers passed by the caller; 65536 does not fit '<H'
Types == { 0, 1, 65536 }

\* field definitions (field_def_num, field_size, field_type)
FieldType == << 0, 1, FIT_ENUM >>
FieldManufacturer == << 1, 2, FIT_UINT16 >>
FieldTooLarge == << 256, 1, FIT_ENUM >>

FieldLists == { << >>, << FieldType, FieldManufacturer >>, << FieldTooLarge >> }

\* a value handed to write_data_message: an iterable of integers (bytes,
\* bytearray, list) or an object that is not iterable (an int)
Iterable(items) == [ iterable |-> TRUE, items |-> items ]
NotIterable == [ iterable |-> FALSE, items |-> << >> ]

ValueLists ==
  { << >>,
    << Iterable(<< 5 >>), Iterable(<< 1, 0 >>) >>,
    << Iterable(<< 5 >>), NotIterable >>,
    << Iterable(<< 300 >>) >> }

(***************************************************************************)
(* FitWriter                                                               *)
(***************************************************************************)
NoReturn ==
  [ op |-> "init", err |-> "none", id |-> -1, out |-> << >>,
    g |-> -1, fields |-> << >>, values |-> << >> ]

\* no calculate_crc call made outside the writer
NoChecksum ==
  [ seed |-> 0, fed |-> << >>, crc |-> 0, err |-> "none", packed |-> << >> ]

Init ==
  /\ data = << >>
  /\ local_message_types = [ x \in {} |-> 0 ]
  /\ next_local_id = 0
  /\ calls = 0
  /\ ret = NoReturn
  /\ prev = [ data |-> << >>, map |-> [ x \in {} |-> 0 ], next |-> 0 ]
  /\ assigned = {}
  /\ schemas = [ x \in {} |-> << >> ]
  /\ successes = 0
  /\ checksum = NoChecksum

\* the state the writer was in when the call started
Snapshot ==
  [ data |-> data, map |-> local_message_types, next |-> next_local_id ]

\* self.local_message_types[global_mesg_num] = local_id
MapSet(map, g, local_id) ==
  [ x \in (DOMAIN map) \cup { g } |-> IF x = g THEN local_id ELSE map[x] ]

\* self.data.extend(definition) / self.data.append(local_id) /
\* self.data.extend(value)
ExtendReplaces(buffer, bytes) == bytes
Extend(buffer, bytes) == buffer \o bytes

\* self.next_local_id += 1
NextLocalIdStuck(n) == n
NextLocalId(n) == n + 1

\* header = 0x40 | local_id
DefinitionHeaderBit7(local_id) == BitOr[128, local_id]
DefinitionHeader(local_id) == BitOr[64, local_id]

\* the three bytes of each field definition, in declaration order
RECURSIVE FieldDefsFrom(_, _)
FieldDefsFrom(fields, i) ==
  IF i > Len(fields) THEN << >>
  ELSE PackB(fields[i][1]) \o PackB(fields[i][2]) \o PackB(fields[i][3])
         \o FieldDefsFrom(fields, i + 1)

\* struct.pack succeeds on every argument of the definition message
DefinitionPacks(local_id, g, fields) ==
  /\ FitsB(DefinitionHeader(local_id))
  /\ FitsH(g)
  /\ FitsB(Len(fields))
  /\ \A i \in 1..Len(fields) :
       FitsB(fields[i][1]) /\ FitsB(fields[i][2]) /\ FitsB(fields[i][3])

DefinitionNoFieldCount(local_id, g, fields) ==
  PackB(DefinitionHeader(local_id)) \o PackB(0) \o PackB(0) \o PackH(g)
    \o FieldDefsFrom(fields, 1)
Definition(local_id, g, fields) ==
  PackB(DefinitionHeader(local_id)) \o PackB(0) \o PackB(0) \o PackH(g)
    \o PackB(Len(fields)) \o FieldDefsFrom(fields, 1)

define_message(g, fields) ==
  LET local_id == next_local_id
      ok == DefinitionPacks(local_id, g, fields)
  IN  /\ next_local_id' = NextLocalId(next_local_id)
      /\ local_message_types' = MapSet(local_message_types, g, local_id)
      /\ data' = IF ok THEN Extend(data, Definition(local_id, g, fields)) ELSE data
      /\ ret' = [ op |-> "define",
                  err |-> IF ok THEN "none" ELSE "struct.error",
                  id |-> IF ok THEN local_id ELSE -1,
                  out |-> << >>, g |-> g, fields |-> fields, values |-> << >> ]
      /\ prev' = Snapshot
      /\ assigned' = assigned \cup { << g, local_id >> }
      /\ schemas' = MapSet(schemas, g, fields)
      /\ successes' = IF ok THEN successes + 1 ELSE successes
      /\ calls' = calls + 1
      /\ UNCHANGED checksum

\* local_id = self.local_message_types[global_mesg_num]; -1 stands for KeyError
LookupOrZero(map, g) == IF g \in DOMAIN map THEN map[g] ELSE 0
Lookup(map, g) == IF g \in DOMAIN map THEN map[g] ELSE -1

\* self.data.extend(value) succeeds
ExtendOk(value) ==
  /\ value.iterable
  /\ \A i \in 1..Len(value.items) : value.items[i] \in 0..255

\* number of leading values that were appended before the loop stopped
RECURSIVE ExtendedFrom(_, _)
ExtendedFrom(values, i) ==
  IF i > Len(values) \/ ~ExtendOk(values[i]) THEN i - 1
  ELSE ExtendedFrom(values, i + 1)

RECURSIVE Concat(_, _)
Concat(values, k) ==
  IF k = 0 THEN << >> ELSE Concat(values, k - 1) \o values[k].items

\* self.data.append(local_id)
DataHeaderMarked(local_id) == BitOr[128, local_id]
DataHeader(local_id) == local_id

ValuesReversed(values, k) ==
  IF k = 2 THEN values[2].items \o values[1].items ELSE Concat(values, k)
ValuesBytes(values, k) == Concat(values, k)

write_data_message(g, values) ==
  LET local_id == Lookup(local_message_types, g)
      k == ExtendedFrom(values, 1)
      err == IF local_id = -1 THEN "KeyError"
             ELSE IF ~FitsB(DataHeader(local_id)) THEN "ValueError"
             ELSE IF k = Len(values) THEN "none"
             ELSE IF ~values[k + 1].iterable THEN "TypeError"
             ELSE "ValueError"
      appended == IF local_id = -1 \/ ~FitsB(DataHeader(local_id)) THEN << >>
                  ELSE << DataHeader(local_id) >> \o ValuesBytes(values, k)
  IN  /\ data' = Extend(data, appended)
      /\ ret' = [ op |-> "write", err |-> err, id |-> local_id,
                  out |-> << >>, g |-> g, fields |-> << >>, values |-> values ]
      /\ prev' = Snapshot
      /\ calls' = calls + 1
      /\ UNCHANGED << local_message_types, next_local_id, assigned, schemas,
                      successes, checksum >>

\* header = struct.pack('<BBHI4s', ...)
FileHeaderPlaceholder(size) ==
  PackB(FIT_HEADER_SIZE) \o PackB(FIT_PROTOCOL_VERSION)
    \o PackH(FIT_PROFILE_VERSION) \o PackI(0) \o DotFIT
FileHeader(size) ==
  PackB(FIT_HEADER_SIZE) \o PackB(FIT_PROTOCOL_VERSION)
    \o PackH(FIT_PROFILE_VERSION) \o PackI(size) \o DotFIT

\* header_crc = calculate_crc(header)
HeaderCrcOfPrefix(header) == calculate_crc(SubSeq(header, 1, Len(header) - 1), 0)
HeaderCrc(header) == calculate_crc(header, 0)

\* data_crc = calculate_crc(self.data)
DataCrcOverFile(header, payload) == calculate_crc(header \o payload, 0)
DataCrc(header, payload) == calculate_crc(payload, 0)

\* header += struct.pack('<H', header_crc)
HeaderWithoutCrc(header, header_crc) == header
HeaderWithCrc(header, header_crc) == header \o PackH(header_crc)

\* return bytearray(header) + self.data + struct.pack('<H', data_crc);
\* struct.pack raises struct.error on a number outside its format
FileBytes[header \in Seq(0..255), payload \in Seq(0..255), header_crc \in Nat, data_crc \in Nat] ==
  IF FitsI(Len(payload)) /\ FitsH(header_crc) /\ FitsH(data_crc)
  THEN [ err |-> "none",
         out |-> HeaderWithCrc(header, header_crc) \o payload \o PackH(data_crc) ]
  ELSE [ err |-> "struct.error", out |-> << >> ]

\* bytearray(header) + self.data + ... builds a new object: self.data is
\* not extended
BufferWithTrailer(buffer, trailer) == buffer \o trailer
BufferKept(buffer, trailer) == buffer

finalize ==
  LET header == FileHeader(Len(data))
      file == FileBytes[header, data, HeaderCrc(header), DataCrc(header, data)]
  IN  /\ ret' = [ op |-> "finalize", err |-> file.err, id |-> -1,
                  out |-> file.out,
                  g |-> -1, fields |-> << >>, values |-> << >> ]
      /\ prev' = Snapshot
      /\ data' = BufferKept(data, PackH(DataCrc(header, data)))
      /\ UNCHANGED << local_message_types, next_local_id, calls, assigned,
                      schemas, successes, checksum >>

(***************************************************************************)
(* Spec: a session of at most MaxCalls define/write calls with every input *)
(* of Types, FieldLists and ValueLists.                                    *)
(***************************************************************************)
DefineCall ==
  /\ calls < MaxCalls
  /\ \E g \in Types, fields \in FieldLists : define_message(g, fields)

WriteCall ==
  /\ calls < MaxCalls
  /\ \E g \in Types, values \in ValueLists : write_data_message(g, values)

FinalizeCall == finalize

Next == DefineCall \/ WriteCall \/ FinalizeCall

Spec == Init /\ [][Next]_vars

(***************************************************************************)
(* SpecCap: a session that defines a new message type on every             *)
(* define_message call (type k on the k-th call, one field each) and       *)
(* writes data messages of the type defined last, as create_workout_fit    *)
(* does, or of the type defined first; long enough to pass the 16 stream   *)
(* ids of the 4-bit slot.                                                  *)
(***************************************************************************)
CapFields == << FieldType >>

CapValueLists == { << Iterable(<< 5 >>) >>, << Iterable(<< 5 >>), NotIterable >> }

CapDefine ==
  /\ next_local_id < MaxCapDefines
  /\ define_message(next_local_id, CapFields)

CapWrite ==
  /\ calls - next_local_id < MaxCapWrites
  /\ next_local_id > 0
  /\ \E g \in { 0, next_local_id - 1 }, values \in CapValueLists :
       write_data_message(g, values)

CapFinalize == finalize

NextCap == CapDefine \/ CapWrite \/ CapFinalize

SpecCap == Init /\ [][NextCap]_vars

(***************************************************************************)
(* Properties.  ret is the outcome of the last call, prev the state of the *)
(* writer when that call started.                                          *)
(***************************************************************************)
\* bytes the last call appended to the buffer
Appended == SubSeq(data, Len(prev.data) + 1, Len(data))

\* the last call left buffer, mapping and counter as they were
WriterUnchanged ==
  /\ data = prev.data
  /\ local_message_types = prev.map
  /\ next_local_id = prev.next

\* C1: write_data_message for a message type that no define_message call
\* has named fails (KeyError) and leaves buffer, mapping and counter as
\* they were before the call.
C1_UndefinedWriteFails ==
  (ret.op = "write" /\ ret.g \notin DOMAIN prev.map)
    => (ret.err = "KeyError" /\ WriterUnchanged)

C1_Witness ==
  /\ ret.op = "write"
  /\ ret.g \notin DOMAIN prev.map
  /\ DOMAIN prev.map # {}
  /\ Len(data) > 0
  /\ Len(ret.values) > 0

\* C2: the first 16 define_message calls succeed and return 0..15 in
\* order, the 17th call fails and appends nothing, and no stream id above
\* 15 is ever assigned.
C2_SeventeenthDefineFails ==
  /\ ret.op = "define" =>
       IF prev.next < 16
       THEN ret.err = "none" /\ ret.id = prev.next
       ELSE ret.err # "none" /\ data = prev.data
  /\ \A g \in DOMAIN local_message_types : local_message_types[g] <= 15

\* C3: no two message types of the mapping share a stream id, and a stream
\* id once assigned to a message type is never assigned to another one.
C3_StreamIdsUnique ==
  /\ \A g1, g2 \in DOMAIN local_message_types :
       g1 # g2 => local_message_types[g1] # local_message_types[g2]
  /\ \A p, q \in assigned : p[2] = q[2] => p[1] = q[1]

C3_Witness ==
  /\ Cardinality(DOMAIN local_message_types) >= 2
  /\ \E p, q \in assigned : p[1] = q[1] /\ p[2] # q[2]

\* C4 as stated: a definition header has bit 7 set, bits 6..4 zero and the
\* stream id in bits 3..0; a data header has bit 7 clear.
C4_Bit7MarksDefinition ==
  /\ (ret.op = "define" /\ ret.err = "none") =>
       LET h == Appended[1]
       IN  Bit(h, 7) = 1 /\ Bit(h, 6) = 0 /\ Bit(h, 5) = 0 /\ Bit(h, 4) = 0
             /\ h % 16 = ret.id
  /\ (ret.op = "write" /\ Len(Appended) > 0) => Bit(Appended[1], 7) = 0

\* C4 amended: a definition header is 0x40 | s for the returned stream id
\* s: bit 6 is set and, for s in 0..15, bit 7 and bits 5..4 are zero and
\* bits 3..0 are s; a data header equals the stream id of the mapping, so
\* bit 7 is clear for every stream id below 128.
C4_Bit6MarksDefinition ==
  /\ (ret.op = "define" /\ ret.err = "none") =>
       LET h == Appended[1]
       IN  /\ h = BitOr[64, ret.id]
           /\ Bit(h, 6) = 1
           /\ ret.id <= 15 =>
                Bit(h, 7) = 0 /\ Bit(h, 5) = 0 /\ Bit(h, 4) = 0 /\ h % 16 = ret.id
  /\ (ret.op = "write" /\ Len(Appended) > 0) =>
       /\ Appended[1] = prev.map[ret.g]
       /\ prev.map[ret.g] < 128 => Bit(Appended[1], 7) = 0

C4_Witness ==
  /\ ret.op = "write"
  /\ ret.err = "TypeError"
  /\ Appended = << 16, 5 >>
  /\ data[1] = 64
  /\ data[145] = 80

\* C5: a successful define_message(t, fields) with n fields appends 6 + 3n
\* bytes: header, 0, 0, t as u16 little-endian, n, then the three bytes of
\* each field in order; it returns the stream id stored for t.
C5_DefinitionRecord ==
  (ret.op = "define" /\ ret.err = "none") =>
    LET n == Len(ret.fields)
        rec == Appended
    IN  /\ SubSeq(data, 1, Len(prev.data)) = prev.data
        /\ Len(rec) = 6 + 3 * n
        /\ rec[1] \in 0..255 /\ Bit(rec[1], 6) = 1
        /\ rec[2] = 0
        /\ rec[3] = 0
        /\ rec[4] = ret.g % 256 /\ rec[5] = ret.g \div 256
        /\ rec[6] = n
        /\ \A i \in 1..n : \A j \in 1..3 :
             rec[6 + 3 * (i - 1) + j] = ret.fields[i][j]
        /\ ret.g \in DOMAIN local_message_types
        /\ local_message_types[ret.g] = ret.id

C5_Witness ==
  /\ ret.op = "define"
  /\ ret.err = "none"
  /\ ret.g = 1
  /\ Len(ret.fields) = 2
  /\ Len(prev.data) > 0
  /\ Len(Appended) = 12

\* total length of the values
RECURSIVE TotalLen(_, _)
TotalLen(values, k) ==
  IF k = 0 THEN 0 ELSE TotalLen(values, k - 1) + Len(values[k].items)

\* C6: a successful write_data_message(t, v1..vk) appends 1 + len(v1) + ...
\* + len(vk) bytes: a header byte whose low 4 bits are the stream id
\* last assigned to t, then the bytes of v1..vk in order.
C6_DataRecord ==
  (ret.op = "write" /\ ret.err = "none") =>
    LET k == Len(ret.values)
        rec == Appended
    IN  /\ SubSeq(data, 1, Len(prev.data)) = prev.data
        /\ Len(rec) = 1 + TotalLen(ret.values, k)
        /\ rec[1] % 16 = prev.map[ret.g]
        /\ SubSeq(rec, 2, Len(rec)) = Concat(ret.values, k)

\* C7 as stated: finalize returns 16 + L + 2 bytes, the buffer starting
\* at offset 16.
C7_SixteenByteHeader ==
  ret.op = "finalize" =>
    /\ Len(ret.out) = 16 + Len(data) + 2
    /\ ret.out[1] = 14
    /\ SubSeq(ret.out, 17, 16 + Len(data)) = data

\* C7 amended: finalize returns 14 + L + 2 bytes: a 14-byte header
\* (header_len u8 = 14, proto_ver u8, profile_ver u16 LE, payload_len
\* u32 LE, 4-byte type tag, header_crc u16 LE), the L buffer bytes
\* unchanged from offset 14, then a 2-byte trailer.
C7_FourteenByteHeader ==
  ret.op = "finalize" =>
    /\ ret.err = "none"
    /\ Len(ret.out) = 14 + Len(data) + 2
    /\ ret.out[1] = 14
    /\ ret.out[2] = FIT_PROTOCOL_VERSION
    /\ ReadH(ret.out, 3) = FIT_PROFILE_VERSION
    /\ ReadI(ret.out, 5) = Len(data)
    /\ SubSeq(ret.out, 9, 12) = DotFIT
    /\ ReadH(ret.out, 13) \in 0..65535
    /\ SubSeq(ret.out, 15, 14 + Len(data)) = data
    /\ data = prev.data

C7_Witness ==
  /\ ret.op = "finalize"
  /\ Len(data) = 16
  /\ Len(ret.out) = 32
  /\ calls = 2

\* C8: the payload_length field of the file is the length of the buffer
\* and the trailer is the little-endian u16 checksum, seed 0, of the
\* payload bytes alone.
C8_PayloadLengthAndTrailer ==
  ret.op = "finalize" =>
    LET n == Len(ret.out)
    IN  /\ ReadI(ret.out, 5) = Len(data)
        /\ ReadH(ret.out, n - 1) = calculate_crc(data, 0)
        /\ ReadH(ret.out, n - 1) = calculate_crc(SubSeq(ret.out, n - 1 - Len(data), n - 2), 0)

C8_Witness ==
  /\ ret.op = "finalize"
  /\ Len(data) = 16
  /\ ReadI(ret.out, 5) = 16
  /\ ReadH(ret.out, Len(ret.out) - 1) = 30151

\* C9 as stated: the header checksum follows 14 header bytes and is their
\* checksum.
C9_ChecksumOfFourteenBytes ==
  ret.op = "finalize" =>
    ReadH(ret.out, 15) = calculate_crc(SubSeq(ret.out, 1, 14), 0)

\* C9 amended: the header checksum is the checksum, seed 0, of the 12
\* bytes header_length through file_type_tag that precede it, with the
\* final payload_length in place.
C9_ChecksumOfTwelveBytes ==
  ret.op = "finalize" =>
    /\ ReadH(ret.out, 13) = calculate_crc(SubSeq(ret.out, 1, 12), 0)
    /\ SubSeq(ret.out, 1, 12) =
         << 14, FIT_PROTOCOL_VERSION >> \o PackH(FIT_PROFILE_VERSION)
           \o PackI(Len(data)) \o DotFIT

C9_Witness ==
  /\ ret.op = "finalize"
  /\ Len(data) = 16
  /\ SubSeq(ret.out, 1, 14) = << 14, 32, 92, 8, 16, 0, 0, 0, 46, 70, 73, 84, 57, 55 >>

\* C10 as stated: finalize on a fresh writer returns 18 bytes.
C10_EmptyFileEighteenBytes ==
  (ret.op = "finalize" /\ calls = 0) =>
    /\ Len(ret.out) = 18
    /\ ReadI(ret.out, 5) = 0
    /\ ReadH(ret.out, Len(ret.out) - 1) = 0

\* C10 amended: finalize on a fresh writer returns a 16-byte file (14-byte
\* header, empty payload, 2-byte trailer) whose payload_length is 0 and
\* whose trailer checksum is 0x0000.
C10_EmptyFileSixteenBytes ==
  (ret.op = "finalize" /\ calls = 0) =>
    /\ Len(ret.out) = 16
    /\ ReadI(ret.out, 5) = 0
    /\ ReadH(ret.out, 15) = 0

C10_Witness ==
  /\ ret.op = "finalize"
  /\ calls = 0
  /\ data = << >>
  /\ ret.out = << 14, 32, 92, 8, 0, 0, 0, 0, 46, 70, 73, 84, 56, 59, 0, 0 >>

(***************************************************************************)
(* SpecCrc: calculate_crc as a running checksum.  A caller starts from a   *)
(* seed, feeds chunks of bytes through the accumulator (the crc argument   *)
(* of the next call is the result of the last one) and packs the           *)
(* accumulator as finalize does.                                           *)
(***************************************************************************)
\* chunks fed in one session
MaxChunks == 2
\* bytes in one chunk
MaxChunkLen == 2

Seeds == { 0, 1, 4660, 65535, 65536 }

ChunkBytes == { 18, 239 }

Chunks == UNION { [ 1..n -> ChunkBytes ] : n \in 0..MaxChunkLen }

InitCrc ==
  /\ data = << >>
  /\ local_message_types = [ x \in {} |-> 0 ]
  /\ next_local_id = 0
  /\ calls = 0
  /\ ret = NoReturn
  /\ prev = [ data |-> << >>, map |-> [ x \in {} |-> 0 ], next |-> 0 ]
  /\ assigned = {}
  /\ schemas = [ x \in {} |-> << >> ]
  /\ successes = 0
  /\ \E seed \in Seeds :
       checksum = [ seed |-> seed, fed |-> << >>, crc |-> seed,
                    err |-> "none", packed |-> << >> ]

writer_vars ==
  << data, local_message_types, next_local_id, calls, ret, prev, assigned,
     schemas, successes >>

\* crc = calculate_crc(chunk, crc)
Feed(chunk) ==
  /\ Len(checksum.fed) < MaxChunks
  /\ checksum' = [ checksum EXCEPT !.fed = Append(@, chunk),
                                   !.crc = calculate_crc(chunk, @),
                                   !.err = "none",
                                   !.packed = << >> ]
  /\ UNCHANGED writer_vars

\* struct.pack('<H', crc)
PackChecksum ==
  /\ checksum' = [ checksum EXCEPT
                     !.err = IF FitsH(checksum.crc) THEN "none" ELSE "struct.error",
                     !.packed = IF FitsH(checksum.crc) THEN PackH(checksum.crc)
                                ELSE << >> ]
  /\ UNCHANGED writer_vars

FeedChunk == \E chunk \in Chunks : Feed(chunk)

NextCrc == FeedChunk \/ PackChecksum

SpecCrc == InitCrc /\ [][NextCrc]_vars

\* the chunks fed so far as one byte sequence
RECURSIVE Joined(_, _)
Joined(chunks, k) ==
  IF k = 0 THEN << >> ELSE Joined(chunks, k - 1) \o chunks[k]

\* C11: feeding the input in two pieces, the second call seeded with the
\* result of the first, gives the checksum of the concatenation computed in
\* one call with seed 0.
C11_StreamingChecksum ==
  checksum.seed = 0 =>
    checksum.crc = calculate_crc(Joined(checksum.fed, Len(checksum.fed)), 0)

C11_Witness ==
  /\ checksum.seed = 0
  /\ checksum.fed = << << 18, 239 >>, << 239 >> >>
  /\ checksum.crc = 47533
  /\ calculate_crc(<< 18, 239 >>, 0) = 11341
  /\ calculate_crc(<< 239 >>, 0) = 35905

\* C20: from a seed in 0..65535 the checksum of every byte sequence is in
\* 0..65535, so is the accumulator after each nibble step, and packing it
\* as u16 does not fail.
C20_ChecksumIsU16 ==
  checksum.seed \in 0..65535 =>
    /\ checksum.crc \in 0..65535
    /\ \A nibble \in 0..15 : CrcNibble[checksum.crc, nibble] \in 0..65535
    /\ checksum.err = "none"

C20_Witness ==
  /\ checksum.seed = 65535
  /\ checksum.fed = << << 18, 239 >>, << 239 >> >>
  /\ checksum.crc = 31196
  /\ checksum.packed = << 220, 121 >>

\* the payload of the end-to-end scenario
ScenarioPayload ==
  << 64, 0, 0, 0, 0, 2, 0, 1, 0, 1, 2, 132, 0, 5, 1, 0 >>

\* C12: on a fresh writer define_message(0, [(0,1,0x00),(1,2,0x84)]) then
\* write_data_message(0, [0x05], [0x01,0x00]) leave the 16-byte payload
\* 40 00 00 00 00 02 00 01 00 01 02 84 00 05 01 00, and the trailer of the
\* finalized file is the checksum of those 16 bytes (0x75C7).
C12_EndToEnd ==
  /\ ( /\ calls = 2
       /\ next_local_id = 1
       /\ DOMAIN schemas = { 0 }
       /\ schemas[0] = << FieldType, FieldManufacturer >>
       /\ ret.op = "write"
       /\ ret.g = 0
       /\ ret.values = << Iterable(<< 5 >>), Iterable(<< 1, 0 >>) >> )
     => data = ScenarioPayload
  /\ (ret.op = "finalize" /\ data = ScenarioPayload)
     => /\ Len(ret.out) = 32
        /\ SubSeq(ret.out, 15, 30) = ScenarioPayload
        /\ ReadH(ret.out, 31) = 30151
        /\ ReadH(ret.out, 31) = calculate_crc(ScenarioPayload, 0)

C12_Witness ==
  /\ calls = 2
  /\ next_local_id = 1
  /\ ret.op = "finalize"
  /\ data = ScenarioPayload
  /\ ret.out[31] = 199
  /\ ret.out[32] = 117

(***************************************************************************)
(* A reader of the payload: the record format of the external interface,   *)
(* with the bit that marks a definition record as a parameter.  It keeps   *)
(* the last definition seen for each stream id (bits 3..0 of the header)   *)
(* and cuts each data record at the widths of that definition.             *)
(***************************************************************************)
\* field widths declared by a definition record
DefinitionWidths(body) == [ k \in 1..body[6] |-> body[6 + 3 * (k - 1) + 2] ]

RECURSIVE SumTo(_, _)
SumTo(widths, k) == IF k = 0 THEN 0 ELSE SumTo(widths, k - 1) + widths[k]

\* << <<1, stream id, message_type_id>>, descriptor 1, ..., descriptor n >>
DecodedDefinition(body) ==
  << << 1, body[1] % 16, ReadH(body, 4) >> >>
    \o [ k \in 1..body[6] |-> SubSeq(body, 6 + 3 * (k - 1) + 1, 6 + 3 * k) ]

\* << <<0, stream id>>, value 1, ..., value n >>
DecodedData(bytes, i, widths) ==
  << << 0, bytes[i] % 16 >> >>
    \o [ k \in 1..Len(widths) |->
           SubSeq(bytes, i + 1 + SumTo(widths, k - 1), i + SumTo(widths, k)) ]

ReaderFailed == [ ok |-> FALSE, defs |-> << >>, records |-> << >> ]

Reader[bytes \in Seq(Nat), marker \in 0..7] ==
  LET scan[i \in 1..(Len(bytes) + 1), defs \in Seq(Seq(Nat)), records \in Seq(Seq(Seq(Nat)))] ==
        IF i > Len(bytes)
        THEN [ ok |-> TRUE, defs |-> defs, records |-> records ]
        ELSE IF Bit(bytes[i], marker) = 1
        THEN IF i + 5 > Len(bytes) \/ i + 5 + 3 * bytes[i + 5] > Len(bytes)
             THEN ReaderFailed
             ELSE scan[ i + 6 + 3 * bytes[i + 5],
                        [ defs EXCEPT ![(bytes[i] % 16) + 1] =
                            SubSeq(bytes, i, i + 5 + 3 * bytes[i + 5]) ],
                        Append(records,
                               DecodedDefinition(SubSeq(bytes, i, i + 5 + 3 * bytes[i + 5]))) ]
        ELSE IF defs[(bytes[i] % 16) + 1] = << >>
        THEN ReaderFailed
        ELSE IF i + SumTo(DefinitionWidths(defs[(bytes[i] % 16) + 1]),
                          defs[(bytes[i] % 16) + 1][6]) > Len(bytes)
        THEN ReaderFailed
        ELSE scan[ i + 1 + SumTo(DefinitionWidths(defs[(bytes[i] % 16) + 1]),
                                 defs[(bytes[i] % 16) + 1][6]),
                   defs,
                   Append(records,
                          DecodedData(bytes, i, DefinitionWidths(defs[(bytes[i] % 16) + 1]))) ]
  IN  scan[1, [ k \in 1..16 |-> << >> ], << >>]

\* count and byte widths of the values match the schema
Matches(fields, values) ==
  /\ Len(values) = Len(fields)
  /\ \A k \in 1..Len(values) :
       ExtendOk(values[k]) /\ Len(values[k].items) = fields[k][2]

\* a fresh writer has made one successful define_message call with a
\* non-empty schema and then a write_data_message call of that type with
\* matching values
DefinedThenWritten ==
  /\ calls = 2
  /\ next_local_id = 1
  /\ successes = 1
  /\ ret.op = "write"
  /\ ret.err = "none"
  /\ ret.g \in DOMAIN schemas
  /\ Len(schemas[ret.g]) > 0
  /\ Matches(schemas[ret.g], ret.values)

\* what the reader must give back: the definition, then the data record
RoundTrip ==
  << << << 1, 0, ret.g >> >> \o schemas[ret.g],
     << << 0, 0 >> >> \o [ k \in 1..Len(ret.values) |-> ret.values[k].items ] >>

\* C13 as stated: a reader of the format of the external interface, which
\* takes bit 7 of the header as the definition marker, gives back the
\* definition and the field values supplied.
C13_RoundTripBit7Reader ==
  DefinedThenWritten =>
    (Reader[data, 7].ok /\ Reader[data, 7].records = RoundTrip)

\* C13 amended: a reader of that format which takes bit 6 of the header as
\* the definition marker, as the writer emits it, gives back one definition
\* with the message type and descriptors declared and one data record with
\* the values supplied, in order, at the declared widths.
C13_RoundTripBit6Reader ==
  DefinedThenWritten =>
    (Reader[data, 6].ok /\ Reader[data, 6].records = RoundTrip)

C13_Witness ==
  /\ DefinedThenWritten
  /\ ret.g = 1
  /\ Reader[data, 6].records =
       << << << 1, 0, 1 >>, << 0, 1, 0 >>, << 1, 2, 132 >> >>,
          << << 0, 0 >>, << 5 >>, << 1, 0 >> >> >>

\* C14: a define_message or write_data_message call that fails leaves the
\* buffer exactly as it was before the call.
C14_FailedCallAppendsNothing ==
  (ret.op \in { "define", "write" } /\ ret.err # "none") => data = prev.data

\* the file as a function of the buffer alone
FileOf(payload) ==
  LET head == << 14, 32, 92, 8 >> \o PackI(Len(payload)) \o DotFIT
  IN  head \o PackH(calculate_crc(head, 0)) \o payload
        \o PackH(calculate_crc(payload, 0))

\* C15: finalize leaves buffer, mapping and counter as they were, and the
\* bytes it returns are a function of the buffer alone; hence a second
\* finalize returns the same bytes, and calls made after a finalize give
\* the file they would give without it.
C15_FinalizeChangesNothing ==
  ret.op = "finalize" =>
    /\ WriterUnchanged
    /\ ret.err = "none"
    /\ ret.out = FileOf(data)

C15_Witness ==
  /\ ret.op = "finalize"
  /\ calls = MaxCalls
  /\ Len(data) > 0
  /\ data = prev.data
  /\ local_message_types = prev.map
  /\ DOMAIN local_message_types # {}

\* C16: the buffer before each call is a prefix of the buffer after it, and
\* what a successful call adds is the record it emits: the payload is the
\* concatenation of the records in call order.
C16_AppendOnly ==
  /\ Len(prev.data) <= Len(data)
  /\ SubSeq(data, 1, Len(prev.data)) = prev.data
  /\ (ret.op = "define" /\ ret.err = "none") =>
       data = prev.data \o Definition(ret.id, ret.g, ret.fields)
  /\ (ret.op = "write" /\ ret.err = "none") =>
       data = prev.data \o << prev.map[ret.g] >>
                \o Concat(ret.values, Len(ret.values))
  /\ (ret.op = "finalize" \/ (ret.op = "define" /\ ret.err # "none")) =>
       data = prev.data

C16_Witness ==
  /\ calls = 3
  /\ ret.op = "write"
  /\ ret.err = "none"
  /\ Len(prev.data) = 16
  /\ SubSeq(prev.data, 13, 16) = << 0, 5, 1, 0 >>
  /\ Appended = << 0, 5, 1, 0 >>

\* C17: the counter starts at 0, the k-th successful define_message call
\* returns k - 1, every stream id of the mapping is below the counter, and
\* write_data_message and finalize change neither counter nor mapping.
C17_IdsInDeclarationOrder ==
  /\ ret.op = "init" => next_local_id = 0
  /\ (ret.op = "define" /\ ret.err = "none") => ret.id = successes - 1
  /\ \A g \in DOMAIN local_message_types :
       local_message_types[g] < next_local_id
  /\ ret.op \in { "write", "finalize" } =>
       (local_message_types = prev.map /\ next_local_id = prev.next)

\* C19: a define_message call that fails while encoding its record leaves
\* mapping and counter as they were.
C19_FailedDefineConsumesNoId ==
  (ret.op = "define" /\ ret.err # "none") =>
    (local_message_types = prev.map /\ next_local_id = prev.next)

\* C18: after successful define_message calls, the data record of a
\* successful write_data_message(t, ...) carries in bits 3..0 a stream id
\* for which the payload holds an earlier definition record, and the last
\* such definition record is the one emitted for t.
C18_DataResolvesToSchema ==
  ( /\ ret.op = "write"
    /\ ret.err = "none"
    /\ successes = next_local_id
    /\ calls = next_local_id + 1 )
  => LET reader == Reader[prev.data, 6]
         definition == reader.defs[(Appended[1] % 16) + 1]
     IN  /\ reader.ok
         /\ definition # << >>
         /\ ReadH(definition, 4) = ret.g

TypeOK ==
  /\ \A i \in 1..Len(data) : data[i] \in 0..255
  /\ next_local_id \in Nat
  /\ \A g \in DOMAIN local_message_types : local_message_types[g] \in 0..(next_local_id - 1)

====
